---- MODULE Spec2Model ----
(***************************************************************************)
(* Model of the bounded lockless ring (lib/llring.h, lib/llring.c) and of  *)
(* the sharded ID pool (lib/seq-pool.c).                                   *)
(*                                                                         *)
(* Every shared-memory access of llring_enqueue / llring_dequeue is one    *)
(* step of a thread.  The 32-bit counters head, tail and seq are modelled  *)
(* with CounterBits bits, arithmetic modulo 2^CounterBits; the difference  *)
(* seq - pos is taken in the integers, as the code takes it in int64_t.    *)
(***************************************************************************)
EXTENDS Integers, Sequences, FiniteSets

(***************************************************************************)
(* Bounds of the model.                                                    *)
(***************************************************************************)
\* width of the head / tail / seq counters (uint32_t in the source)
CounterBits == 3
\* largest ring size offered to llring_init
MaxRingSize == 4
\* payloads are 0..MaxData
MaxData == 1
\* threads operating on the ring
NRingThreads == 2

\* log2 of SEQPOOL_C_SIZE (the source has 2^5 = 32 slots per cache)
CacheBits == 0
\* width of the head / tail counters of a cache (uint32_t in the source)
CacheCounterBits == 2
\* seq_pool_create is called with nb_user in 1..MaxUsers when one thread
\* makes the calls
MaxUsers == 3
\* ... and with n_ids in 1..MaxIds
MaxIds == 2
\* ... and with base = PoolBase
PoolBase == 1
\* threads calling seq_pool_new_id / seq_pool_free_id
NPoolThreads == 2
\* frees of in-range values the caller does not hold, per run
MaxUnheld == 1
\* seq_pool_new_id / seq_pool_free_id calls with an id of the range, per run
MaxCalls == 7

CounterMod == 2 ^ CounterBits
RThreads == 1..NRingThreads
DataVals == 0..MaxData
PThreads == 1..NPoolThreads
SEQPOOL_C_SIZE == 2 ^ CacheBits

VARIABLES
    \* ---- struct llring and its nodes
    head,       \* r->head
    tail,       \* r->tail
    mask,       \* r->mask
    init_size,  \* argument 'size' of llring_init
    init_rc,    \* value returned by llring_init, 1 while it has not returned
    nodes,      \* r->nodes: [0..mask -> [seq, data]]
    \* ---- one llring_enqueue / llring_dequeue call per thread
    rpc,        \* position of each thread inside its call
    pos,        \* local 'pos'
    seq,        \* local 'seq'
    data,       \* enqueue: argument 'data'; dequeue: value stored in *data
    role,       \* which operations a thread calls
    payloads,   \* the payloads the callers pass to llring_enqueue
    \* ---- observation of the calls (history)
    ret,        \* result of the last completed call of each thread
    fifo,       \* payloads of the positions claimed by enqueue and not yet
                \* claimed by dequeue, oldest first
    expect,     \* payload the position claimed by a dequeue was enqueued with
    n_done,     \* successful enqueue returns minus successful dequeue returns
    wrapped,    \* the head counter has wrapped around 2^CounterBits
    seen        \* enqueue: at some instant of the call the slot at the head
                \* position was not free; dequeue: at some instant of the
                \* call the slot at the tail position was not published

VARIABLES
    \* ---- struct seq_pool
    nb_user,    \* pool->nb_user
    base,       \* pool->base
    n_ids,      \* pool->n_ids
    next_id,    \* pool->next_id
    free_ids,   \* pool->free_ids, front first
    cache,      \* pool->cache: [0..nb_user-1 -> [head, tail, ids]]
    c_lock,     \* owner of pool->cache[i].c_lock, 0 when unlocked
    lock,       \* owner of pool->lock, 0 when unlocked
    \* ---- one seq_pool_new_id / seq_pool_free_id call per thread
    pc,         \* position of each thread inside its call
    uid,        \* 'uid' after uid %= pool->nb_user
    id,         \* new_id: value stored in *id; free_id: argument 'id'
    found,      \* new_id: local 'found'
    li,         \* local 'i' of the steal loop
    hd,         \* c2->head as read by SEQPOOL_C_EMPTY(c2) without c2->c_lock
    fnodes,     \* free_id: ids of the local 'nodes' array
    callers,    \* the threads that make calls
    unheld,     \* frees of IDs the caller does not hold that may still be made
    budget,     \* calls that may still be started
    \* ---- observation of the calls (history)
    issued,     \* how many callers hold each ID of the range
    tmp,        \* new_id: the value of SEQPOOL_C_POP(c2) not yet stored by
                \* SEQPOOL_C_ADD(cache, ...), 0 when there is none
    alive,      \* seq_pool_destroy has not been called
    order,      \* per cache: the IDs added and not yet popped, oldest first
    hist        \* per watched thread, for its seq_pool_new_id call in progress:
                \* whether every ID was out at some instant of the call,
                \* whether a try-lock failed

poolvars == <<nb_user, base, n_ids, next_id, free_ids, cache, c_lock, lock, pc,
              uid, id, found, li, hd, fnodes, callers, unheld, budget, issued,
              tmp, alive, order, hist>>

ringvars == <<init_size, init_rc, head, tail, mask, nodes, rpc, pos, seq, data, role, payloads,
              ret, fifo, expect, n_done, wrapped, seen>>
vars == <<ringvars, poolvars>>

(***************************************************************************)
(* uint32_t arithmetic and the helpers of llring.c                         *)
(***************************************************************************)
\* uint32_t wrap-around
U32(x) == x % CounterMod

\* IS_POW2(x)
RECURSIVE IS_POW2(_)
IS_POW2(x) == IF x <= 0 THEN FALSE
              ELSE IF x = 1 THEN TRUE
              ELSE IF x % 2 = 1 THEN FALSE
              ELSE IS_POW2(x \div 2)

\* pos & r->mask, for a mask of the form 2^k - 1
Masked(p, m) == p % (m + 1)

\* llring_init: -1 for an invalid size, else 0 and the initialised ring
llring_init_rc(size) == IF size < 2 \/ ~IS_POW2(size) THEN -1 ELSE 0
llring_init_nodes(size) == [i \in 0..(size - 1) |-> [seq |-> U32(i), data |-> 0]]

RingSizes == {s \in 0..MaxRingSize : llring_init_rc(s) = 0}

\* diff = (int64_t)seq - (int64_t)pos            (llring_enqueue)
EnqDiff(s, p) == s - p
\* a faulty variant of the dequeue test: seq compared with pos itself
DeqDiffNoIncrement(s, p) == s - p
\* diff = (int64_t)seq - (int64_t)(pos + 1)      (llring_dequeue)
DeqDiff(s, p) == s - U32(p + 1)

(***************************************************************************)
(* Initial state: a ring initialised by llring_init, no call in progress.  *)
(***************************************************************************)
RingInit(sizes, roles, vals) ==
    /\ \E size \in sizes :
          /\ init_size = size
          /\ mask = size - 1
          /\ nodes = llring_init_nodes(size)
    /\ init_rc = 0
    /\ head = 0
    /\ tail = 0
    /\ rpc = [t \in RThreads |-> "idle"]
    /\ pos = [t \in RThreads |-> 0]
    /\ seq = [t \in RThreads |-> 0]
    /\ data = [t \in RThreads |-> 0]
    /\ role = roles
    /\ payloads = vals
    /\ ret = [t \in RThreads |-> "none"]
    /\ fifo = <<>>
    /\ expect = [t \in RThreads |-> 0]
    /\ n_done = 0
    /\ wrapped = FALSE
    /\ seen = [t \in RThreads |-> FALSE]

(***************************************************************************)
(* Observation of a run (history variables, no effect on the ring).        *)
(***************************************************************************)
InEnqueue(p) == p \in {"e_seq", "e_test", "e_write", "e_pub"}
InDequeue(p) == p \in {"d_seq", "d_test", "d_read", "d_pub"}

\* the slot at the head position is not free for the producer of position head
HeadSlotBusy(h, ns, m) == ns[Masked(h, m)].seq # h
\* the slot at the tail position holds no element published for position tail
TailSlotEmpty(tl, ns, m) == ns[Masked(tl, m)].seq # U32(tl + 1)

Observe ==
    /\ wrapped' = (wrapped \/ head' < head)
    /\ seen' = [u \in RThreads |->
                  IF InEnqueue(rpc'[u])
                     THEN (rpc[u] # "idle" /\ seen[u]) \/ HeadSlotBusy(head', nodes', mask')
                  ELSE IF InDequeue(rpc'[u])
                     THEN (rpc[u] # "idle" /\ seen[u]) \/ TailSlotEmpty(tail', nodes', mask')
                  ELSE seen[u]]
    /\ UNCHANGED poolvars

(***************************************************************************)
(* llring_enqueue                                                          *)
(***************************************************************************)
\* the call: atomic_read_relaxed(&r->head, &pos)
EnqCall(t) ==
    /\ init_rc = 0
    /\ rpc[t] = "idle"
    /\ role[t] \in {"producer", "both"}
    /\ \E d \in payloads : data' = [data EXCEPT ![t] = d]
    /\ pos' = [pos EXCEPT ![t] = head]
    /\ rpc' = [rpc EXCEPT ![t] = "e_seq"]
    /\ ret' = [ret EXCEPT ![t] = "none"]
    /\ UNCHANGED <<head, tail, mask, nodes, seq, role, payloads, fifo, expect, n_done>>
    /\ UNCHANGED <<init_size, init_rc>>
    /\ Observe

\* node = &r->nodes[pos & r->mask]; acquire read of node->seq
EnqReadSeq(t) ==
    /\ rpc[t] = "e_seq"
    /\ seq' = [seq EXCEPT ![t] = nodes[Masked(pos[t], mask)].seq]
    /\ rpc' = [rpc EXCEPT ![t] = "e_test"]
    /\ UNCHANGED <<head, tail, mask, nodes, pos, data, role, payloads, ret, fifo, expect,
                   n_done>>
    /\ UNCHANGED <<init_size, init_rc>>
    /\ Observe

\* diff == 0 and the compare-exchange on head succeeds
EnqCasOk(t) ==
    /\ rpc[t] = "e_test"
    /\ EnqDiff(seq[t], pos[t]) = 0
    /\ head = pos[t]
    /\ head' = U32(pos[t] + 1)
    /\ fifo' = IF Len(fifo) > mask + 1 THEN fifo ELSE Append(fifo, data[t])
    /\ rpc' = [rpc EXCEPT ![t] = "e_write"]
    /\ UNCHANGED <<tail, mask, nodes, pos, seq, data, role, payloads, ret, expect, n_done>>
    /\ UNCHANGED <<init_size, init_rc>>
    /\ Observe

\* diff == 0 and the compare-exchange fails: pos receives the observed head.
\* The exchange is the weak one, it may also fail with head = pos.
EnqCasFail(t) ==
    /\ rpc[t] = "e_test"
    /\ EnqDiff(seq[t], pos[t]) = 0
    /\ pos' = [pos EXCEPT ![t] = head]
    /\ rpc' = [rpc EXCEPT ![t] = "e_seq"]
    /\ UNCHANGED <<head, tail, mask, nodes, seq, data, role, payloads, ret, fifo, expect,
                   n_done>>
    /\ UNCHANGED <<init_size, init_rc>>
    /\ Observe

\* a faulty variant of the full test: the position is claimed before the
\* call returns false
EnqFullAfterClaim(t) ==
    /\ rpc[t] = "e_test"
    /\ EnqDiff(seq[t], pos[t]) < 0
    /\ head' = U32(head + 1)
    /\ rpc' = [rpc EXCEPT ![t] = "idle"]
    /\ ret' = [ret EXCEPT ![t] = "enq_false"]
    /\ UNCHANGED <<tail, mask, nodes, pos, seq, data, role, payloads, fifo, expect,
                   n_done>>
    /\ UNCHANGED <<init_size, init_rc>>
    /\ Observe

\* diff < 0: return false
EnqFull(t) ==
    /\ rpc[t] = "e_test"
    /\ EnqDiff(seq[t], pos[t]) < 0
    /\ rpc' = [rpc EXCEPT ![t] = "idle"]
    /\ ret' = [ret EXCEPT ![t] = "enq_false"]
    /\ UNCHANGED <<head, tail, mask, nodes, pos, seq, data, role, payloads, fifo, expect,
                   n_done>>
    /\ UNCHANGED <<init_size, init_rc>>
    /\ Observe

\* diff > 0: atomic_read_relaxed(&r->head, &pos) and loop
EnqReload(t) ==
    /\ rpc[t] = "e_test"
    /\ EnqDiff(seq[t], pos[t]) > 0
    /\ pos' = [pos EXCEPT ![t] = head]
    /\ rpc' = [rpc EXCEPT ![t] = "e_seq"]
    /\ UNCHANGED <<head, tail, mask, nodes, seq, data, role, payloads, ret, fifo, expect,
                   n_done>>
    /\ UNCHANGED <<init_size, init_rc>>
    /\ Observe

\* node->data = data
EnqWrite(t) ==
    /\ rpc[t] = "e_write"
    /\ nodes' = [nodes EXCEPT ![Masked(pos[t], mask)].data = data[t]]
    /\ rpc' = [rpc EXCEPT ![t] = "e_pub"]
    /\ UNCHANGED <<head, tail, mask, pos, seq, data, role, payloads, ret, fifo, expect,
                   n_done>>
    /\ UNCHANGED <<init_size, init_rc>>
    /\ Observe

\* value stored to node->seq by the producer
EnqPubSeq(p) == U32(p + 1)

\* release store of pos + 1 to node->seq; return true
EnqPublish(t) ==
    /\ rpc[t] = "e_pub"
    /\ nodes' = [nodes EXCEPT ![Masked(pos[t], mask)].seq = EnqPubSeq(pos[t])]
    /\ rpc' = [rpc EXCEPT ![t] = "idle"]
    /\ ret' = [ret EXCEPT ![t] = "enq_true"]
    /\ n_done' = IF n_done > mask + 1 THEN n_done ELSE n_done + 1
    /\ UNCHANGED <<head, tail, mask, pos, seq, data, role, payloads, fifo, expect>>
    /\ UNCHANGED <<init_size, init_rc>>
    /\ Observe

(***************************************************************************)
(* llring_dequeue                                                          *)
(***************************************************************************)
\* the call: atomic_read_relaxed(&r->tail, &pos)
DeqCall(t) ==
    /\ init_rc = 0
    /\ rpc[t] = "idle"
    /\ role[t] \in {"consumer", "both"}
    /\ pos' = [pos EXCEPT ![t] = tail]
    /\ rpc' = [rpc EXCEPT ![t] = "d_seq"]
    /\ ret' = [ret EXCEPT ![t] = "none"]
    /\ UNCHANGED <<head, tail, mask, nodes, seq, data, role, payloads, fifo, expect,
                   n_done>>
    /\ UNCHANGED <<init_size, init_rc>>
    /\ Observe

\* node = &r->nodes[pos & r->mask]; acquire read of node->seq
DeqReadSeq(t) ==
    /\ rpc[t] = "d_seq"
    /\ seq' = [seq EXCEPT ![t] = nodes[Masked(pos[t], mask)].seq]
    /\ rpc' = [rpc EXCEPT ![t] = "d_test"]
    /\ UNCHANGED <<head, tail, mask, nodes, pos, data, role, payloads, ret, fifo, expect,
                   n_done>>
    /\ UNCHANGED <<init_size, init_rc>>
    /\ Observe

\* diff == 0 and the compare-exchange on tail succeeds
DeqCasOk(t) ==
    /\ rpc[t] = "d_test"
    /\ DeqDiff(seq[t], pos[t]) = 0
    /\ tail = pos[t]
    /\ tail' = U32(pos[t] + 1)
    /\ IF fifo # <<>>
          THEN /\ expect' = [expect EXCEPT ![t] = Head(fifo)]
               /\ fifo' = Tail(fifo)
          ELSE /\ expect' = [expect EXCEPT ![t] = -1]
               /\ fifo' = fifo
    /\ rpc' = [rpc EXCEPT ![t] = "d_read"]
    /\ UNCHANGED <<head, mask, nodes, pos, seq, data, role, payloads, ret, n_done>>
    /\ UNCHANGED <<init_size, init_rc>>
    /\ Observe

\* diff == 0 and the compare-exchange fails: pos receives the observed tail
DeqCasFail(t) ==
    /\ rpc[t] = "d_test"
    /\ DeqDiff(seq[t], pos[t]) = 0
    /\ pos' = [pos EXCEPT ![t] = tail]
    /\ rpc' = [rpc EXCEPT ![t] = "d_seq"]
    /\ UNCHANGED <<head, tail, mask, nodes, seq, data, role, payloads, ret, fifo, expect,
                   n_done>>
    /\ UNCHANGED <<init_size, init_rc>>
    /\ Observe

\* diff < 0: return false
DeqEmpty(t) ==
    /\ rpc[t] = "d_test"
    /\ DeqDiff(seq[t], pos[t]) < 0
    /\ rpc' = [rpc EXCEPT ![t] = "idle"]
    /\ ret' = [ret EXCEPT ![t] = "deq_false"]
    /\ UNCHANGED <<head, tail, mask, nodes, pos, seq, data, role, payloads, fifo, expect,
                   n_done>>
    /\ UNCHANGED <<init_size, init_rc>>
    /\ Observe

\* diff > 0: atomic_read_relaxed(&r->tail, &pos) and loop
DeqReload(t) ==
    /\ rpc[t] = "d_test"
    /\ DeqDiff(seq[t], pos[t]) > 0
    /\ pos' = [pos EXCEPT ![t] = tail]
    /\ rpc' = [rpc EXCEPT ![t] = "d_seq"]
    /\ UNCHANGED <<head, tail, mask, nodes, seq, data, role, payloads, ret, fifo, expect,
                   n_done>>
    /\ UNCHANGED <<init_size, init_rc>>
    /\ Observe

\* *data = node->data
DeqRead(t) ==
    /\ rpc[t] = "d_read"
    /\ data' = [data EXCEPT ![t] = nodes[Masked(pos[t], mask)].data]
    /\ rpc' = [rpc EXCEPT ![t] = "d_pub"]
    /\ UNCHANGED <<head, tail, mask, nodes, pos, seq, role, payloads, ret, fifo, expect,
                   n_done>>
    /\ UNCHANGED <<init_size, init_rc>>
    /\ Observe

\* value stored to node->seq by the consumer
DeqPubSeq(p, m) == U32(p + m + 1)

\* release store of pos + mask + 1 to node->seq; return true
DeqPublish(t) ==
    /\ rpc[t] = "d_pub"
    /\ nodes' = [nodes EXCEPT ![Masked(pos[t], mask)].seq = DeqPubSeq(pos[t], mask)]
    /\ rpc' = [rpc EXCEPT ![t] = "idle"]
    /\ ret' = [ret EXCEPT ![t] = "deq_true"]
    /\ n_done' = IF n_done < 0 THEN n_done ELSE n_done - 1
    /\ UNCHANGED <<head, tail, mask, pos, seq, data, role, payloads, fifo, expect>>
    /\ UNCHANGED <<init_size, init_rc>>
    /\ Observe

llring_enqueue(t) ==
    \/ EnqCall(t)
    \/ EnqReadSeq(t)
    \/ EnqCasOk(t)
    \/ EnqCasFail(t)
    \/ EnqFull(t)
    \/ EnqReload(t)
    \/ EnqWrite(t)
    \/ EnqPublish(t)

llring_dequeue(t) ==
    \/ DeqCall(t)
    \/ DeqReadSeq(t)
    \/ DeqCasOk(t)
    \/ DeqCasFail(t)
    \/ DeqEmpty(t)
    \/ DeqReload(t)
    \/ DeqRead(t)
    \/ DeqPublish(t)

(***************************************************************************)
(* llring_init as a step: the ring before and after the call               *)
(***************************************************************************)
\* the caller's ring and node array before llring_init: nothing is stored
\* in them yet
RingRaw(sizes, roles, vals) ==
    /\ \E size \in sizes :
          /\ init_size = size
          /\ nodes = [i \in 0..(size - 1) |-> [seq |-> 0, data |-> 0]]
    /\ init_rc = 1
    /\ mask = 0
    /\ head = 0
    /\ tail = 0
    /\ rpc = [t \in RThreads |-> "idle"]
    /\ pos = [t \in RThreads |-> 0]
    /\ seq = [t \in RThreads |-> 0]
    /\ data = [t \in RThreads |-> 0]
    /\ role = roles
    /\ payloads = vals
    /\ ret = [t \in RThreads |-> "none"]
    /\ fifo = <<>>
    /\ expect = [t \in RThreads |-> 0]
    /\ n_done = 0
    /\ wrapped = FALSE
    /\ seen = [t \in RThreads |-> FALSE]

\* llring_init(r, nodes, size)
llring_init ==
    /\ init_rc = 1
    /\ init_rc' = llring_init_rc(init_size)
    /\ IF llring_init_rc(init_size) = 0
          THEN /\ mask' = init_size - 1
               /\ nodes' = llring_init_nodes(init_size)
               /\ head' = 0
               /\ tail' = 0
          ELSE UNCHANGED <<mask, nodes, head, tail>>
    /\ UNCHANGED <<init_size, rpc, pos, seq, data, role, payloads, ret, fifo, expect,
                   n_done>>
    /\ Observe

(***************************************************************************)
(* seq-pool.c: the per-user cache                                          *)
(***************************************************************************)
\* uint32_t wrap-around of c->head and c->tail
C32(x) == x % (2 ^ CacheCounterBits)

\* SEQPOOL_C_MASKED(u)
SEQPOOL_C_MASKED(u) == u % SEQPOOL_C_SIZE
\* SEQPOOL_C_EMPTY(c)
SEQPOOL_C_EMPTY(c) == c.head = c.tail
\* SEQPOOL_C_FULL(c)
SEQPOOL_C_FULL(c) == /\ ~SEQPOOL_C_EMPTY(c)
                     /\ SEQPOOL_C_MASKED(c.head) = SEQPOOL_C_MASKED(c.tail)
\* SEQPOOL_C_ADD(c, u): the cache after the macro
SEQPOOL_C_ADD(c, u) == [c EXCEPT !.ids[SEQPOOL_C_MASKED(c.head)] = u,
                                 !.head = C32(c.head + 1)]
\* SEQPOOL_C_POP(c): the value of the macro ...
SEQPOOL_C_POP(c) == c.ids[SEQPOOL_C_MASKED(c.tail)]
\* ... and the cache after it
SEQPOOL_C_POPPED(c) == [c EXCEPT !.tail = C32(c.tail + 1)]

\* the range check of seq_pool_free_id
\* a faulty variant of the range test: every value is accepted
OutOfRangeNever(v) == FALSE
\* a faulty variant of the range test: the upper end is not tested
OutOfRangeBelow(v) == v < base
OutOfRange(v) == v < base \/ v >= base + n_ids

\* the IDs of the range [base, base + n_ids)
Range == base..(base + n_ids - 1)

(***************************************************************************)
(* seq_pool_create: the pool after construction, no call in progress.      *)
(* xcalloc zeroes the caches.                                              *)
(***************************************************************************)
seq_pool_create(users, n) ==
    /\ nb_user = users
    /\ base = PoolBase
    /\ n_ids = n
    /\ next_id = PoolBase
    /\ free_ids = <<>>
    /\ cache = [u \in 0..(users - 1) |->
                  [head |-> 0, tail |-> 0,
                   ids |-> [k \in 0..(SEQPOOL_C_SIZE - 1) |-> 0]]]
    /\ c_lock = [u \in 0..(users - 1) |-> 0]
    /\ lock = 0

\* a faulty lock, acquired whoever owns the mutex
ovs_mutex_lock_unchecked(owner) == TRUE
\* ovs_mutex_lock(&m): returns once no thread owns the mutex
ovs_mutex_lock(owner) == owner = 0

\* the positions of a seq_pool_new_id call
NewBody == {"n_lock", "n_fast", "n_plock", "n_free", "n_next", "n_punlock",
            "n_steal", "n_steal_t", "n_try", "n_take", "n_add", "n_rel", "n_pop",
            "n_unlock"}

\* every ID of the range is out: held by a caller, stored in *id by a call
\* that is about to return it, or the argument of a seq_pool_free_id call
\* that has not yet put it into the cache or into free_ids
AllOut ==
    \A v \in Range :
       \/ issued[v] > 0
       \/ \E u \in PThreads : pc[u] = "n_unlock" /\ found[u] /\ id[u] = v
       \/ \E u \in PThreads :
             /\ pc[u] \in {"f_lock", "f_add", "f_flush", "f_plock", "f_push"}
             /\ id[u] = v

NoHist == [allout |-> FALSE, tryfail |-> FALSE]

\* history taken after every step: per cache the IDs that SEQPOOL_C_ADD
\* stored and SEQPOOL_C_POP has not yet removed, in the order of the stores;
\* per seq_pool_new_id call in progress of the watched threads: allout when every ID was out at some instant
\* since the call started, tryfail when ovs_mutex_trylock(&c2->c_lock)
\* failed in the call
Track ==
    /\ order' = [u \in DOMAIN order |->
                   LET added == IF cache'[u].head # cache[u].head
                                   THEN Append(order[u],
                                               cache'[u].ids[SEQPOOL_C_MASKED(cache[u].head)])
                                   ELSE order[u]
                   IN  IF cache'[u].tail # cache[u].tail /\ added # <<>>
                          THEN Tail(added)
                          ELSE added]
    /\ hist' = [u \in DOMAIN hist |->
               IF pc'[u] \in NewBody
                  THEN LET h == IF pc[u] \in NewBody THEN hist[u] ELSE NoHist
                       IN  [allout |-> h.allout \/ AllOut \/ AllOut',
                            tryfail |-> h.tryfail \/
                                        (pc[u] = "n_try" /\ pc'[u] = "n_steal")]
                  ELSE NoHist]

PoolStart(userSet, idSet, threads, nUnheld, nCalls, watched) ==
    /\ \E users \in userSet, n \in idSet : seq_pool_create(users, n)
    /\ pc = [t \in PThreads |-> "idle"]
    /\ uid = [t \in PThreads |-> 0]
    /\ id = [t \in PThreads |-> 0]
    /\ found = [t \in PThreads |-> FALSE]
    /\ li = [t \in PThreads |-> 0]
    /\ hd = [t \in PThreads |-> 0]
    /\ fnodes = [t \in PThreads |-> <<>>]
    /\ callers = threads
    /\ unheld = nUnheld
    /\ budget = nCalls
    /\ issued = [v \in (PoolBase - 1)..(PoolBase + n_ids) |-> 0]
    /\ tmp = [t \in PThreads |-> 0]
    /\ alive = TRUE
    /\ order = [u \in 0..(nb_user - 1) |-> <<>>]
    /\ hist = [t \in watched |-> NoHist]

\* a pool of any number of users and IDs up to the bounds, no call watched
PoolInit(threads, nUnheld, nCalls) ==
    PoolStart(1..MaxUsers, 1..MaxIds, threads, nUnheld, nCalls, {})

\* the pool is not used by the runs that exercise the ring alone
PoolUnused ==
    /\ seq_pool_create(1, 1)
    /\ pc = [t \in PThreads |-> "idle"]
    /\ uid = [t \in PThreads |-> 0]
    /\ id = [t \in PThreads |-> 0]
    /\ found = [t \in PThreads |-> FALSE]
    /\ li = [t \in PThreads |-> 0]
    /\ hd = [t \in PThreads |-> 0]
    /\ fnodes = [t \in PThreads |-> <<>>]
    /\ callers = {}
    /\ unheld = 0
    /\ budget = 0
    /\ issued = [v \in (PoolBase - 1)..(PoolBase + 1) |-> 0]
    /\ tmp = [t \in PThreads |-> 0]
    /\ alive = TRUE
    /\ order = [u \in 0..(nb_user - 1) |-> <<>>]
    /\ hist = [t \in {} |-> NoHist]

(***************************************************************************)
(* seq_pool_new_id                                                         *)
(***************************************************************************)
\* the call: uid %= pool->nb_user; cache = &pool->cache[uid]
NewCall(t) ==
    /\ pc[t] = "idle" /\ t \in callers
    /\ alive
    /\ budget > 0
    /\ budget' = budget - 1
    /\ \E raw \in 0..MaxUsers : uid' = [uid EXCEPT ![t] = raw % nb_user]
    /\ pc' = [pc EXCEPT ![t] = "n_lock"]
    /\ UNCHANGED <<nb_user, base, n_ids, next_id, free_ids, cache, c_lock, lock,
                   id, found, li, hd, fnodes, callers, unheld, issued>>
    /\ Track
    /\ UNCHANGED <<tmp, alive>>
    /\ UNCHANGED ringvars

\* ovs_mutex_lock(&cache->c_lock)
NewLock(t) ==
    /\ pc[t] = "n_lock"
    /\ ovs_mutex_lock(c_lock[uid[t]])
    /\ c_lock' = [c_lock EXCEPT ![uid[t]] = t]
    /\ pc' = [pc EXCEPT ![t] = "n_fast"]
    /\ UNCHANGED <<nb_user, base, n_ids, next_id, free_ids, cache, lock, uid, id,
                   found, li, hd, fnodes, callers, unheld, issued>>
    /\ UNCHANGED budget
    /\ Track
    /\ UNCHANGED <<tmp, alive>>
    /\ UNCHANGED ringvars

\* if (!SEQPOOL_C_EMPTY(cache)) { *id = SEQPOOL_C_POP(cache); goto unlock; }
NewFast(t) ==
    /\ pc[t] = "n_fast"
    /\ LET c == cache[uid[t]] IN
         IF ~SEQPOOL_C_EMPTY(c)
            THEN /\ id' = [id EXCEPT ![t] = SEQPOOL_C_POP(c)]
                 /\ cache' = [cache EXCEPT ![uid[t]] = SEQPOOL_C_POPPED(c)]
                 /\ found' = [found EXCEPT ![t] = TRUE]
                 /\ pc' = [pc EXCEPT ![t] = "n_unlock"]
            ELSE /\ pc' = [pc EXCEPT ![t] = "n_plock"]
                 /\ UNCHANGED <<id, cache, found>>
    /\ UNCHANGED <<nb_user, base, n_ids, next_id, free_ids, c_lock, lock, uid,
                   li, hd, fnodes, callers, unheld, issued>>
    /\ UNCHANGED budget
    /\ Track
    /\ UNCHANGED <<tmp, alive>>
    /\ UNCHANGED ringvars

\* ovs_mutex_lock(&pool->lock)
NewPoolLock(t) ==
    /\ pc[t] = "n_plock"
    /\ ovs_mutex_lock(lock)
    /\ lock' = t
    /\ pc' = [pc EXCEPT ![t] = "n_free"]
    /\ UNCHANGED <<nb_user, base, n_ids, next_id, free_ids, cache, c_lock, uid,
                   id, found, li, hd, fnodes, callers, unheld, issued>>
    /\ UNCHANGED budget
    /\ Track
    /\ UNCHANGED <<tmp, alive>>
    /\ UNCHANGED ringvars

\* one test of the first refill loop, and its body when the test holds:
\* while (!SEQPOOL_C_FULL(cache) && !ovs_list_is_empty(&pool->free_ids))
NewRefillFree(t) ==
    /\ pc[t] = "n_free"
    /\ LET c == cache[uid[t]] IN
         IF ~SEQPOOL_C_FULL(c) /\ free_ids # <<>>
            THEN /\ cache' = [cache EXCEPT ![uid[t]] = SEQPOOL_C_ADD(c, Head(free_ids))]
                 /\ free_ids' = Tail(free_ids)
                 /\ pc' = pc
            ELSE /\ pc' = [pc EXCEPT ![t] = "n_next"]
                 /\ UNCHANGED <<cache, free_ids>>
    /\ UNCHANGED <<nb_user, base, n_ids, next_id, c_lock, lock, uid, id, found,
                   li, hd, fnodes, callers, unheld, issued>>
    /\ UNCHANGED budget
    /\ Track
    /\ UNCHANGED <<tmp, alive>>
    /\ UNCHANGED ringvars

\* a faulty cursor test that admits one value past the range
CursorLeftInclusive == next_id <= base + n_ids

\* pool->next_id < pool->base + pool->n_ids
CursorLeft == next_id < base + n_ids

\* one test of the second refill loop, and its body when the test holds:
\* while (!SEQPOOL_C_FULL(cache) && pool->next_id < pool->base + pool->n_ids)
NewRefillNext(t) ==
    /\ pc[t] = "n_next"
    /\ LET c == cache[uid[t]] IN
         IF ~SEQPOOL_C_FULL(c) /\ CursorLeft
            THEN /\ cache' = [cache EXCEPT ![uid[t]] = SEQPOOL_C_ADD(c, next_id)]
                 /\ next_id' = next_id + 1
                 /\ pc' = pc
            ELSE /\ pc' = [pc EXCEPT ![t] = "n_punlock"]
                 /\ UNCHANGED <<cache, next_id>>
    /\ UNCHANGED <<nb_user, base, n_ids, free_ids, c_lock, lock, uid, id, found,
                   li, hd, fnodes, callers, unheld, issued>>
    /\ UNCHANGED budget
    /\ Track
    /\ UNCHANGED <<tmp, alive>>
    /\ UNCHANGED ringvars

\* ovs_mutex_unlock(&pool->lock); if (SEQPOOL_C_EMPTY(cache)) { i = 0 ...
NewPoolUnlock(t) ==
    /\ pc[t] = "n_punlock"
    /\ lock' = 0
    /\ IF SEQPOOL_C_EMPTY(cache[uid[t]])
          THEN /\ li' = [li EXCEPT ![t] = 0]
               /\ pc' = [pc EXCEPT ![t] = "n_steal"]
          ELSE /\ li' = li
               /\ pc' = [pc EXCEPT ![t] = "n_pop"]
    /\ UNCHANGED <<nb_user, base, n_ids, next_id, free_ids, cache, c_lock, uid,
                   id, found, hd, fnodes, callers, unheld, issued>>
    /\ UNCHANGED budget
    /\ Track
    /\ UNCHANGED <<tmp, alive>>
    /\ UNCHANGED ringvars

\* the steal loop ends: i == pool->nb_user
NewStealDone(t) ==
    /\ pc[t] = "n_steal"
    /\ ~(li[t] < nb_user)
    /\ pc' = [pc EXCEPT ![t] = "n_pop"]
    /\ UNCHANGED <<nb_user, base, n_ids, next_id, free_ids, cache, c_lock, lock,
                   uid, id, found, li, hd, fnodes, callers, unheld, issued>>
    /\ UNCHANGED budget
    /\ Track
    /\ UNCHANGED <<tmp, alive>>
    /\ UNCHANGED ringvars

\* if (i == uid) continue;
NewStealSelf(t) ==
    /\ pc[t] = "n_steal"
    /\ li[t] < nb_user
    /\ li[t] = uid[t]
    /\ li' = [li EXCEPT ![t] = li[t] + 1]
    /\ UNCHANGED <<nb_user, base, n_ids, next_id, free_ids, cache, c_lock, lock,
                   pc, uid, id, found, hd, fnodes, callers, unheld, issued>>
    /\ UNCHANGED budget
    /\ Track
    /\ UNCHANGED <<tmp, alive>>
    /\ UNCHANGED ringvars

\* SEQPOOL_C_EMPTY(c2), evaluated without c2->c_lock: the load of c2->head
NewStealReadHead(t) ==
    /\ pc[t] = "n_steal"
    /\ li[t] < nb_user
    /\ li[t] # uid[t]
    /\ hd' = [hd EXCEPT ![t] = cache[li[t]].head]
    /\ pc' = [pc EXCEPT ![t] = "n_steal_t"]
    /\ UNCHANGED <<nb_user, base, n_ids, next_id, free_ids, cache, c_lock, lock,
                   uid, id, found, li, fnodes, callers, unheld, issued>>
    /\ UNCHANGED budget
    /\ Track
    /\ UNCHANGED <<tmp, alive>>
    /\ UNCHANGED ringvars

\* ... the load of c2->tail and the comparison: if (...) continue;
NewStealReadTail(t) ==
    /\ pc[t] = "n_steal_t"
    /\ IF hd[t] = cache[li[t]].tail
          THEN /\ li' = [li EXCEPT ![t] = li[t] + 1]
               /\ pc' = [pc EXCEPT ![t] = "n_steal"]
          ELSE /\ li' = li
               /\ pc' = [pc EXCEPT ![t] = "n_try"]
    /\ hd' = [hd EXCEPT ![t] = 0]
    /\ UNCHANGED <<nb_user, base, n_ids, next_id, free_ids, cache, c_lock, lock,
                   uid, id, found, fnodes, callers, unheld, issued>>
    /\ UNCHANGED budget
    /\ Track
    /\ UNCHANGED <<tmp, alive>>
    /\ UNCHANGED ringvars

\* a faulty variant of the try-lock: ovs_mutex_lock, which never reports
\* failure and returns once the lock is acquired
ovs_mutex_lock_blocking(owner) == 0
\* ovs_mutex_trylock(&c2->c_lock): 0 when the lock was acquired
ovs_mutex_trylock(owner) == IF owner = 0 THEN 0 ELSE 1

\* if (ovs_mutex_trylock(&c2->c_lock)) continue;
NewStealTryFail(t) ==
    /\ pc[t] = "n_try"
    /\ ovs_mutex_trylock(c_lock[li[t]]) # 0
    /\ li' = [li EXCEPT ![t] = li[t] + 1]
    /\ pc' = [pc EXCEPT ![t] = "n_steal"]
    /\ UNCHANGED <<nb_user, base, n_ids, next_id, free_ids, cache, c_lock, lock,
                   uid, id, found, hd, fnodes, callers, unheld, issued>>
    /\ UNCHANGED budget
    /\ Track
    /\ UNCHANGED <<tmp, alive>>
    /\ UNCHANGED ringvars

\* the try-lock acquires c2->c_lock, which no thread owns
NewStealTryOk(t) ==
    /\ pc[t] = "n_try"
    /\ ovs_mutex_trylock(c_lock[li[t]]) = 0
    /\ c_lock[li[t]] = 0
    /\ c_lock' = [c_lock EXCEPT ![li[t]] = t]
    /\ pc' = [pc EXCEPT ![t] = "n_take"]
    /\ UNCHANGED <<nb_user, base, n_ids, next_id, free_ids, cache, lock, uid, id,
                   found, li, hd, fnodes, callers, unheld, issued>>
    /\ UNCHANGED budget
    /\ Track
    /\ UNCHANGED <<tmp, alive>>
    /\ UNCHANGED ringvars

\* c2 is locked: if (!SEQPOOL_C_EMPTY(c2)) the SEQPOOL_C_POP(c2) of
\* SEQPOOL_C_ADD(cache, SEQPOOL_C_POP(c2)), whose store c2->tail++ comes
\* before the store cache->head++; else ovs_mutex_unlock(&c2->c_lock) and
\* the next i
NewStealTake(t) ==
    /\ pc[t] = "n_take"
    /\ LET c2 == cache[li[t]] IN
         IF ~SEQPOOL_C_EMPTY(c2)
            THEN /\ tmp' = [tmp EXCEPT ![t] = SEQPOOL_C_POP(c2)]
                 /\ cache' = [cache EXCEPT ![li[t]] = SEQPOOL_C_POPPED(c2)]
                 /\ pc' = [pc EXCEPT ![t] = "n_add"]
                 /\ UNCHANGED <<c_lock, li>>
            ELSE /\ c_lock' = [c_lock EXCEPT ![li[t]] = 0]
                 /\ li' = [li EXCEPT ![t] = li[t] + 1]
                 /\ pc' = [pc EXCEPT ![t] = "n_steal"]
                 /\ UNCHANGED <<cache, tmp>>
    /\ UNCHANGED <<nb_user, base, n_ids, next_id, free_ids, lock, uid, id, found,
                   hd, fnodes, callers, unheld, issued>>
    /\ UNCHANGED budget
    /\ Track
    /\ UNCHANGED alive
    /\ UNCHANGED ringvars

\* the store of SEQPOOL_C_ADD(cache, ...): cache->ids[MASKED(head++)] = the
\* popped ID, made while c2->c_lock is still owned
NewStealAdd(t) ==
    /\ pc[t] = "n_add"
    /\ cache' = [cache EXCEPT ![uid[t]] = SEQPOOL_C_ADD(cache[uid[t]], tmp[t])]
    /\ tmp' = [tmp EXCEPT ![t] = 0]
    /\ pc' = [pc EXCEPT ![t] = "n_rel"]
    /\ UNCHANGED <<nb_user, base, n_ids, next_id, free_ids, c_lock, lock, uid, id,
                   found, li, hd, fnodes, callers, unheld, issued>>
    /\ UNCHANGED budget
    /\ Track
    /\ UNCHANGED alive
    /\ UNCHANGED ringvars

\* ovs_mutex_unlock(&c2->c_lock); the next i
NewStealRelease(t) ==
    /\ pc[t] = "n_rel"
    /\ c_lock' = [c_lock EXCEPT ![li[t]] = 0]
    /\ li' = [li EXCEPT ![t] = li[t] + 1]
    /\ pc' = [pc EXCEPT ![t] = "n_steal"]
    /\ UNCHANGED <<nb_user, base, n_ids, next_id, free_ids, cache, lock, uid, id,
                   found, hd, fnodes, callers, unheld, issued>>
    /\ UNCHANGED budget
    /\ Track
    /\ UNCHANGED <<tmp, alive>>
    /\ UNCHANGED ringvars

\* if (!SEQPOOL_C_EMPTY(cache)) { *id = SEQPOOL_C_POP(cache); found = true; }
NewPop(t) ==
    /\ pc[t] = "n_pop"
    /\ LET c == cache[uid[t]] IN
         IF ~SEQPOOL_C_EMPTY(c)
            THEN /\ id' = [id EXCEPT ![t] = SEQPOOL_C_POP(c)]
                 /\ cache' = [cache EXCEPT ![uid[t]] = SEQPOOL_C_POPPED(c)]
                 /\ found' = [found EXCEPT ![t] = TRUE]
            ELSE UNCHANGED <<id, cache, found>>
    /\ li' = [li EXCEPT ![t] = 0]
    /\ pc' = [pc EXCEPT ![t] = "n_unlock"]
    /\ UNCHANGED <<nb_user, base, n_ids, next_id, free_ids, c_lock, lock, uid,
                   hd, fnodes, callers, unheld, issued>>
    /\ UNCHANGED budget
    /\ Track
    /\ UNCHANGED <<tmp, alive>>
    /\ UNCHANGED ringvars

\* unlock: ovs_mutex_unlock(&cache->c_lock); return found;
NewUnlock(t) ==
    /\ pc[t] = "n_unlock"
    /\ c_lock' = [c_lock EXCEPT ![uid[t]] = 0]
    /\ pc' = [pc EXCEPT ![t] = "idle"]
    /\ issued' = IF found[t] /\ id[t] \in DOMAIN issued /\ issued[id[t]] < 2
                    THEN [issued EXCEPT ![id[t]] = @ + 1]
                    ELSE issued
    /\ uid' = [uid EXCEPT ![t] = 0]
    /\ id' = [id EXCEPT ![t] = 0]
    /\ found' = [found EXCEPT ![t] = FALSE]
    /\ UNCHANGED <<nb_user, base, n_ids, next_id, free_ids, cache, lock, li, hd,
                   fnodes, callers, unheld>>
    /\ UNCHANGED budget
    /\ Track
    /\ UNCHANGED <<tmp, alive>>
    /\ UNCHANGED ringvars

(***************************************************************************)
(* seq_pool_free_id                                                        *)
(***************************************************************************)

\* the call with an id outside the range:
\* if (id < pool->base || id >= pool->base + pool->n_ids) return;
FreeOutOfRange(t) ==
    /\ pc[t] = "idle" /\ t \in callers
    /\ alive
    /\ \E v \in DOMAIN issued :
          /\ OutOfRange(v)
          /\ id' = [id EXCEPT ![t] = v]
    /\ pc' = [pc EXCEPT ![t] = "f_ret"]
    /\ UNCHANGED <<nb_user, base, n_ids, next_id, free_ids, cache, c_lock, lock,
                   uid, found, li, hd, fnodes, callers, unheld, issued>>
    /\ UNCHANGED budget
    /\ Track
    /\ UNCHANGED <<tmp, alive>>
    /\ UNCHANGED ringvars

\* ... and the call is over
FreeReturn(t) ==
    /\ pc[t] = "f_ret"
    /\ pc' = [pc EXCEPT ![t] = "idle"]
    /\ id' = [id EXCEPT ![t] = 0]
    /\ UNCHANGED <<nb_user, base, n_ids, next_id, free_ids, cache, c_lock, lock,
                   uid, found, li, hd, fnodes, callers, unheld, issued>>
    /\ UNCHANGED budget
    /\ Track
    /\ UNCHANGED <<tmp, alive>>
    /\ UNCHANGED ringvars

\* the call with an id of the range: uid %= pool->nb_user.  The caller
\* passes an ID it holds, or, 'unheld' times per run, one it does not hold.
FreeCall(t) ==
    /\ pc[t] = "idle" /\ t \in callers
    /\ alive
    /\ budget > 0
    /\ budget' = budget - 1
    /\ \E v \in DOMAIN issued :
          /\ ~OutOfRange(v)
          /\ id' = [id EXCEPT ![t] = v]
          /\ \/ /\ issued[v] > 0
                /\ issued' = [issued EXCEPT ![v] = @ - 1]
                /\ unheld' = unheld
             \/ /\ issued[v] = 0
                /\ unheld > 0
                /\ issued' = issued
                /\ unheld' = unheld - 1
    /\ \E raw \in 0..MaxUsers : uid' = [uid EXCEPT ![t] = raw % nb_user]
    /\ pc' = [pc EXCEPT ![t] = "f_lock"]
    /\ UNCHANGED <<nb_user, base, n_ids, next_id, free_ids, cache, c_lock, lock,
                   found, li, hd, fnodes, callers>>
    /\ Track
    /\ UNCHANGED <<tmp, alive>>
    /\ UNCHANGED ringvars

\* ovs_mutex_lock(&cache->c_lock)
FreeLock(t) ==
    /\ pc[t] = "f_lock"
    /\ ovs_mutex_lock(c_lock[uid[t]])
    /\ c_lock' = [c_lock EXCEPT ![uid[t]] = t]
    /\ pc' = [pc EXCEPT ![t] = "f_add"]
    /\ UNCHANGED <<nb_user, base, n_ids, next_id, free_ids, cache, lock, uid, id,
                   found, li, hd, fnodes, callers, unheld, issued>>
    /\ UNCHANGED budget
    /\ Track
    /\ UNCHANGED <<tmp, alive>>
    /\ UNCHANGED ringvars

\* if (!SEQPOOL_C_FULL(cache)) { SEQPOOL_C_ADD(cache, id); ... } else i = 0 ...
FreeAdd(t) ==
    /\ pc[t] = "f_add"
    /\ LET c == cache[uid[t]] IN
         IF ~SEQPOOL_C_FULL(c)
            THEN /\ cache' = [cache EXCEPT ![uid[t]] = SEQPOOL_C_ADD(c, id[t])]
                 /\ pc' = [pc EXCEPT ![t] = "f_unlock"]
            ELSE /\ cache' = cache
                 /\ pc' = [pc EXCEPT ![t] = "f_flush"]
    /\ UNCHANGED <<nb_user, base, n_ids, next_id, free_ids, c_lock, lock, uid, id,
                   found, li, hd, fnodes, callers, unheld, issued>>
    /\ UNCHANGED budget
    /\ Track
    /\ UNCHANGED <<tmp, alive>>
    /\ UNCHANGED ringvars

\* the outcomes of a store of v to nodes[i], where
\* struct seq_node *nodes[SEQPOOL_C_SIZE + 1] holds ns so far. A store past
\* the last element is undefined behaviour: it either lands outside the
\* array, where the push loop (i < ARRAY_SIZE(nodes)) never reads it, or
\* the call faults and does not return.
StoreNode(ns, v) ==
    IF Len(ns) < SEQPOOL_C_SIZE + 1
       THEN {[nodes |-> Append(ns, v), fault |-> FALSE]}
       ELSE {[nodes |-> ns, fault |-> FALSE], [nodes |-> ns, fault |-> TRUE]}

\* one test of the flush loop and its body: while (!SEQPOOL_C_EMPTY(cache))
\* nodes[i++]->id = SEQPOOL_C_POP(cache); then the node of the freed id
FreeFlush(t) ==
    /\ pc[t] = "f_flush"
    /\ LET c == cache[uid[t]]
           more == ~SEQPOOL_C_EMPTY(c)
       IN  \E o \in StoreNode(fnodes[t], IF more THEN SEQPOOL_C_POP(c) ELSE id[t]) :
              /\ fnodes' = [fnodes EXCEPT ![t] = o.nodes]
              /\ cache' = IF more THEN [cache EXCEPT ![uid[t]] = SEQPOOL_C_POPPED(c)]
                                  ELSE cache
              /\ pc' = [pc EXCEPT ![t] = IF o.fault THEN "f_fault"
                                         ELSE IF more THEN "f_flush" ELSE "f_plock"]
    /\ UNCHANGED <<nb_user, base, n_ids, next_id, free_ids, c_lock, lock, uid, id,
                   found, li, hd, callers, unheld, issued>>
    /\ UNCHANGED budget
    /\ Track
    /\ UNCHANGED <<tmp, alive>>
    /\ UNCHANGED ringvars

\* ovs_mutex_lock(&pool->lock)
FreePoolLock(t) ==
    /\ pc[t] = "f_plock"
    /\ ovs_mutex_lock(lock)
    /\ lock' = t
    /\ pc' = [pc EXCEPT ![t] = "f_push"]
    /\ UNCHANGED <<nb_user, base, n_ids, next_id, free_ids, cache, c_lock, uid,
                   id, found, li, hd, fnodes, callers, unheld, issued>>
    /\ UNCHANGED budget
    /\ Track
    /\ UNCHANGED <<tmp, alive>>
    /\ UNCHANGED ringvars

\* the push loop: ovs_list_push_back of every node; ovs_mutex_unlock(&pool->lock)
FreePush(t) ==
    /\ pc[t] = "f_push"
    /\ free_ids' = free_ids \o fnodes[t]
    /\ fnodes' = [fnodes EXCEPT ![t] = <<>>]
    /\ lock' = 0
    /\ pc' = [pc EXCEPT ![t] = "f_unlock"]
    /\ UNCHANGED <<nb_user, base, n_ids, next_id, cache, c_lock, uid, id, found,
                   li, hd, callers, unheld, issued>>
    /\ UNCHANGED budget
    /\ Track
    /\ UNCHANGED <<tmp, alive>>
    /\ UNCHANGED ringvars

\* ovs_mutex_unlock(&cache->c_lock); return
FreeUnlock(t) ==
    /\ pc[t] = "f_unlock"
    /\ c_lock' = [c_lock EXCEPT ![uid[t]] = 0]
    /\ pc' = [pc EXCEPT ![t] = "idle"]
    /\ uid' = [uid EXCEPT ![t] = 0]
    /\ id' = [id EXCEPT ![t] = 0]
    /\ UNCHANGED <<nb_user, base, n_ids, next_id, free_ids, cache, lock, found, li,
                   hd, fnodes, callers, unheld, issued>>
    /\ UNCHANGED budget
    /\ Track
    /\ UNCHANGED <<tmp, alive>>
    /\ UNCHANGED ringvars

(***************************************************************************)
(* seq_pool_destroy                                                        *)
(***************************************************************************)

\* the call: the caller makes it while no other call is in progress, and no
\* call is made on the pool afterwards
DestroyCall(t) ==
    /\ pc[t] = "idle" /\ t \in callers
    /\ alive
    /\ \A u \in PThreads : pc[u] = "idle"
    /\ alive' = FALSE
    /\ pc' = [pc EXCEPT ![t] = "x_plock"]
    /\ UNCHANGED <<nb_user, base, n_ids, next_id, free_ids, cache, c_lock, lock,
                   uid, id, found, li, hd, fnodes, callers, unheld, issued>>
    /\ UNCHANGED budget
    /\ Track
    /\ UNCHANGED tmp
    /\ UNCHANGED ringvars

\* ovs_mutex_lock(&pool->lock)
DestroyPoolLock(t) ==
    /\ pc[t] = "x_plock"
    /\ ovs_mutex_lock(lock)
    /\ lock' = t
    /\ pc' = [pc EXCEPT ![t] = "x_free"]
    /\ UNCHANGED <<nb_user, base, n_ids, next_id, free_ids, cache, c_lock, uid,
                   id, found, li, hd, fnodes, callers, unheld, issued>>
    /\ UNCHANGED budget
    /\ Track
    /\ UNCHANGED <<tmp, alive>>
    /\ UNCHANGED ringvars

\* LIST_FOR_EACH_SAFE (...) free(node); ovs_list_poison;
\* ovs_mutex_unlock(&pool->lock); ovs_mutex_destroy(&pool->lock); i = 0
DestroyFree(t) ==
    /\ pc[t] = "x_free"
    /\ free_ids' = <<>>
    /\ lock' = 0
    /\ li' = [li EXCEPT ![t] = 0]
    /\ pc' = [pc EXCEPT ![t] = "x_clock"]
    /\ UNCHANGED <<nb_user, base, n_ids, next_id, cache, c_lock, uid, id, found,
                   hd, fnodes, callers, unheld, issued>>
    /\ UNCHANGED budget
    /\ Track
    /\ UNCHANGED <<tmp, alive>>
    /\ UNCHANGED ringvars

\* for (i = 0; i < pool->nb_user; i++) ovs_mutex_lock(&pool->cache[i].c_lock)
DestroyCacheLock(t) ==
    /\ pc[t] = "x_clock"
    /\ li[t] < nb_user
    /\ ovs_mutex_lock(c_lock[li[t]])
    /\ c_lock' = [c_lock EXCEPT ![li[t]] = t]
    /\ pc' = [pc EXCEPT ![t] = "x_reset"]
    /\ UNCHANGED <<nb_user, base, n_ids, next_id, free_ids, cache, lock, uid, id,
                   found, li, hd, fnodes, callers, unheld, issued>>
    /\ UNCHANGED budget
    /\ Track
    /\ UNCHANGED <<tmp, alive>>
    /\ UNCHANGED ringvars

\* pool->cache[i].head = 0; pool->cache[i].tail = 0; ovs_mutex_unlock and
\* ovs_mutex_destroy of the c_lock; the cache holds no ID any more
DestroyCacheReset(t) ==
    /\ pc[t] = "x_reset"
    /\ cache' = [cache EXCEPT ![li[t]] = [@ EXCEPT !.head = 0, !.tail = 0]]
    /\ c_lock' = [c_lock EXCEPT ![li[t]] = 0]
    /\ li' = [li EXCEPT ![t] = li[t] + 1]
    /\ pc' = [pc EXCEPT ![t] = "x_clock"]
    /\ order' = [order EXCEPT ![li[t]] = <<>>]
    /\ UNCHANGED <<nb_user, base, n_ids, next_id, free_ids, lock, uid, id, found,
                   hd, fnodes, callers, unheld, issued>>
    /\ UNCHANGED budget
    /\ UNCHANGED <<tmp, alive, hist>>
    /\ UNCHANGED ringvars

\* the loop is over: free(pool->cache); free(pool); return
DestroyDone(t) ==
    /\ pc[t] = "x_clock"
    /\ li[t] >= nb_user
    /\ li' = [li EXCEPT ![t] = 0]
    /\ pc' = [pc EXCEPT ![t] = "idle"]
    /\ UNCHANGED <<nb_user, base, n_ids, next_id, free_ids, cache, c_lock, lock,
                   uid, id, found, hd, fnodes, callers, unheld, issued>>
    /\ UNCHANGED budget
    /\ Track
    /\ UNCHANGED <<tmp, alive>>
    /\ UNCHANGED ringvars

\* the steps of a call in which no try-lock fails
NewIdSteps(t) ==
    \/ NewCall(t)
    \/ NewLock(t)
    \/ NewFast(t)
    \/ NewPoolLock(t)
    \/ NewRefillFree(t)
    \/ NewRefillNext(t)
    \/ NewPoolUnlock(t)
    \/ NewStealDone(t)
    \/ NewStealSelf(t)
    \/ NewStealReadHead(t)
    \/ NewStealReadTail(t)
    \/ NewStealTryOk(t)
    \/ NewStealTake(t)
    \/ NewStealAdd(t)
    \/ NewStealRelease(t)
    \/ NewPop(t)
    \/ NewUnlock(t)

seq_pool_new_id(t) == NewIdSteps(t) \/ NewStealTryFail(t)

seq_pool_free_id(t) ==
    \/ FreeOutOfRange(t)
    \/ FreeReturn(t)
    \/ FreeCall(t)
    \/ FreeLock(t)
    \/ FreeAdd(t)
    \/ FreeFlush(t)
    \/ FreePoolLock(t)
    \/ FreePush(t)
    \/ FreeUnlock(t)

seq_pool_destroy(t) ==
    \/ DestroyCall(t)
    \/ DestroyPoolLock(t)
    \/ DestroyFree(t)
    \/ DestroyCacheLock(t)
    \/ DestroyCacheReset(t)
    \/ DestroyDone(t)

(***************************************************************************)
(* Specifications                                                          *)
(***************************************************************************)
PoolNext ==
    \E t \in PThreads :
       seq_pool_new_id(t) \/ seq_pool_free_id(t) \/ seq_pool_destroy(t)

\* calls that do not overlap: one thread makes every call, so that no
\* try-lock can fail
PoolNextSeq ==
    \E t \in PThreads :
       NewIdSteps(t) \/ seq_pool_free_id(t) \/ seq_pool_destroy(t)

RingNext == \E t \in RThreads : llring_enqueue(t) \/ llring_dequeue(t)

\* any number of producers and consumers
InitMPMC == /\ RingInit(RingSizes, [t \in RThreads |-> "both"], {0})
            /\ PoolUnused
SpecRing == InitMPMC /\ [][RingNext]_vars

\* one producer (thread 1), one consumer (thread 2)
InitSPSC == /\ RingInit(RingSizes,
                        [t \in RThreads |-> IF t = 1 THEN "producer"
                                             ELSE IF t = 2 THEN "consumer"
                                             ELSE "none"],
                        DataVals)
            /\ PoolUnused
SpecSPSC == InitSPSC /\ [][RingNext]_vars

\* calls that do not overlap: thread 1 makes every call
InitSolo == /\ RingInit(RingSizes,
                        [t \in RThreads |-> IF t = 1 THEN "both" ELSE "none"],
                        DataVals)
            /\ PoolUnused
SpecSolo == InitSolo /\ [][RingNext]_vars

\* the ring from before llring_init, for every size up to MaxRingSize + 2;
\* thread 1 makes every call
InitRaw == /\ RingRaw(0..(MaxRingSize + 2),
                      [t \in RThreads |-> IF t = 1 THEN "both" ELSE "none"],
                      {0})
           /\ PoolUnused
RawNext == llring_init \/ RingNext
SpecInit == InitRaw /\ [][RawNext]_vars

\* the ring is not used by the runs that exercise the pool
RingUnused == RingInit({MaxRingSize}, [t \in RThreads |-> "none"], {0})

\* the pool, calls that do not overlap, callers free only IDs they hold,
\* the history of the calls is taken
InitPoolSeq ==
    /\ PoolStart(1..MaxUsers, 1..MaxIds, {1}, 0, MaxCalls, {1})
    /\ RingUnused
SpecPoolSeq == InitPoolSeq /\ [][PoolNextSeq]_vars

\* the pool with enough users and IDs for one call to steal
\* 2 * SEQPOOL_C_SIZE + 1 IDs, calls that do not overlap, callers free only
\* IDs they hold
InitPoolFlush ==
    /\ PoolStart({2 * SEQPOOL_C_SIZE + 2}, {2 * SEQPOOL_C_SIZE + 1}, {1}, 0,
                 MaxCalls + 1, {})
    /\ RingUnused
SpecPoolFlush == InitPoolFlush /\ [][PoolNextSeq]_vars

\* the pool with a single ID, which no steal can overflow, concurrent
\* callers that free only IDs they hold, the history of the calls is taken
InitPoolWatched ==
    /\ PoolStart({MaxUsers}, {1}, PThreads, 0, MaxCalls - 2, PThreads)
    /\ RingUnused
SpecPoolWatched == InitPoolWatched /\ [][PoolNext]_vars

\* the pool, concurrent callers that free only IDs they hold
InitPool == PoolInit(PThreads, 0, MaxCalls) /\ RingUnused
SpecPool == InitPool /\ [][PoolNext]_vars

\* the pool, concurrent callers that free any value, in shorter runs
InitPoolAny == PoolInit(PThreads, MaxUnheld, MaxCalls - 1) /\ RingUnused
SpecPoolAny == InitPoolAny /\ [][PoolNext]_vars

\* the pool under fair scheduling, in shorter runs: every thread that can
\* take a step eventually takes one
InitPoolFair == PoolInit(PThreads, 0, MaxCalls - 2) /\ RingUnused
SpecPoolFair == /\ InitPoolFair
                /\ [][PoolNext]_vars
                /\ \A t \in PThreads :
                      WF_vars(seq_pool_new_id(t) \/ seq_pool_free_id(t)
                                 \/ seq_pool_destroy(t))

\* thread 1 keeps taking steps, and a compare-exchange that could succeed
\* does not fail for ever
Completion == \E t \in RThreads :
                 EnqFull(t) \/ EnqPublish(t) \/ DeqEmpty(t) \/ DeqPublish(t)
SpecSoloFair == /\ SpecSolo
                /\ WF_vars(RingNext)
                /\ SF_vars(\E t \in RThreads : EnqCasOk(t))
                /\ SF_vars(\E t \in RThreads : DeqCasOk(t))

(***************************************************************************)
(* Properties of the ring                                                  *)
(***************************************************************************)
\* C2: with one producer and one consumer, the value a successful
\* llring_dequeue stores in *data is the payload of the oldest position
\* claimed by a successful llring_enqueue and not yet dequeued, so the
\* dequeued values are a prefix of the enqueued ones, in order.
C2_FifoOrder ==
    \A t \in RThreads : rpc[t] = "d_pub" => data[t] = expect[t]

\* a dequeue is delivering payload 1 after the counters wrapped around
C2_Witness ==
    /\ wrapped
    /\ rpc[2] = "d_pub" /\ pos[2] = 1 /\ data[2] = 1 /\ expect[2] = 1

\* C3: a call made while no other operation is in progress returns false
\* at its first test of diff when the ring is full (enqueue) or empty
\* (dequeue), whatever the values of head and tail.
C3_FailsWithoutBlocking ==
    \A t \in RThreads :
       /\ (rpc[t] = "e_test" /\ n_done = mask + 1) => EnqDiff(seq[t], pos[t]) < 0
       /\ (rpc[t] = "d_test" /\ n_done = 0) => DeqDiff(seq[t], pos[t]) < 0

\* C6: successful enqueues minus successful dequeues stay within
\* 0..capacity, and a position is claimed by a dequeue only after an enqueue.
C6_CapacityBound ==
    /\ n_done \in 0..(mask + 1)
    /\ Len(fifo) <= mask + 1
    /\ \A t \in RThreads : rpc[t] \in {"d_read", "d_pub"} => expect[t] # -1

\* C9: as long as a thread keeps taking steps, operations keep completing.
C9_LockFreeProgress == []<><<Completion>>_vars

\* C10: llring_enqueue returns false only if the slot at the head position
\* was not free at some instant of the call, and llring_dequeue returns
\* false only if the slot at the tail position was not published at some
\* instant of the call.
C10_NoSpuriousFailure ==
    \A t \in RThreads : ret[t] \in {"enq_false", "deq_false"} => seen[t]


(***************************************************************************)
(* Properties of the pool                                                  *)
(***************************************************************************)
\* number of IDs a cache holds: head - tail in uint32_t arithmetic
CacheOcc(c) == C32(c.head - c.tail)
\* number of slots between tail and head of a cache that hold the ID v
CacheCopies(c, v) ==
    Cardinality({k \in 0..(CacheOcc(c) - 1) : c.ids[SEQPOOL_C_MASKED(c.tail + k)] = v})
\* number of nodes of free_ids that hold the ID v
FreeCopies(v) == Cardinality({i \in 1..Len(free_ids) : free_ids[i] = v})

RECURSIVE AllCacheCopies(_, _)
AllCacheCopies(u, v) ==
    IF u < 0 THEN 0 ELSE CacheCopies(cache[u], v) + AllCacheCopies(u - 1, v)
RECURSIVE AllCacheOcc(_)
AllCacheOcc(u) == IF u < 0 THEN 0 ELSE CacheOcc(cache[u]) + AllCacheOcc(u - 1)

\* number of places an ID is in: callers, cache slots, free list nodes
Places(v) == issued[v] + AllCacheCopies(nb_user - 1, v) + FreeCopies(v)

\* no seq_pool_new_id or seq_pool_free_id call is in progress
Quiescent == \A t \in PThreads : pc[t] = "idle"

\* the thread that owns the lock thread t is waiting for, 0 when t is not
\* waiting: ovs_mutex_lock waits, and so does a lock operation on c2->c_lock
\* that reports no failure while another thread owns the lock
WaitsFor(t) ==
    IF pc[t] \in {"n_lock", "f_lock"} THEN c_lock[uid[t]]
    ELSE IF pc[t] \in {"n_plock", "f_plock"} THEN lock
    ELSE IF pc[t] = "n_try" /\ ovs_mutex_trylock(c_lock[li[t]]) = 0 THEN c_lock[li[t]]
    ELSE 0

\* C1: callers that free only IDs they hold never hold the same ID twice:
\* seq_pool_new_id does not return an ID that is still held.
C1_Uniqueness == \A v \in DOMAIN issued : issued[v] <= 1

\* C4: when calls do not overlap, seq_pool_new_id returns false exactly
\* when every ID of the range is held by a caller.
C4_ExactExhaustion ==
    \A t \in PThreads :
       pc[t] = "n_unlock" => (found[t] <=> \E v \in Range : issued[v] = 0)

\* no set of threads is such that each of them waits for a lock owned by a
\* thread of the set
NoWaitCycle ==
    \A S \in SUBSET PThreads :
       S # {} => \E t \in S : WaitsFor(t) \notin S

\* C5: no set of threads is such that each of them waits for a lock owned
\* by a thread of the set, and under fair scheduling every call returns.
C5_DeadlockFreedom ==
    /\ []NoWaitCycle
    /\ \A t \in PThreads : (pc[t] # "idle") ~> (pc[t] = "idle")

\* two threads that each own their cache lock try the lock of the other
C5_Witness ==
    /\ pc[1] = "n_try" /\ pc[2] = "n_try"
    /\ c_lock[li[1]] = 2 /\ c_lock[li[2]] = 1

\* C7: when no call is in progress on the pool, which has not been
\* destroyed, and callers freed only IDs they held,
\* every ID below next_id is in exactly one place and no ID at or above
\* next_id is anywhere; with no ID held, the cache occupancies plus the
\* length of free_ids equal next_id - base.
C7_Conservation ==
    (Quiescent /\ alive) =>
       /\ \A v \in Range : Places(v) = IF v < next_id THEN 1 ELSE 0
       /\ (\A v \in Range : issued[v] = 0)
             => AllCacheOcc(nb_user - 1) + Len(free_ids) = next_id - base

\* C8: a seq_pool_new_id call that returns true stored an ID of
\* [base, base + n_ids) in *id, whatever values seq_pool_free_id was called
\* with.
C8_Range ==
    \A t \in PThreads :
       (pc[t] = "n_unlock" /\ found[t]) => (id[t] >= base /\ id[t] < base + n_ids)

\* after a free of an ID the caller did not hold, a call returns the last ID
\* of the largest range while a caller holds that ID
C8_Witness ==
    \E t \in PThreads :
       /\ pc[t] = "n_unlock" /\ found[t]
       /\ unheld = 0
       /\ n_ids = MaxIds /\ id[t] = base + n_ids - 1
       /\ issued[id[t]] > 0

\* the positions of seq_pool_free_id after its range test
FreeBody == {"f_lock", "f_add", "f_flush", "f_plock", "f_push", "f_unlock", "f_fault"}

\* C11: seq_pool_free_id called with an id outside [base, base + n_ids)
\* returns without taking a lock and leaves next_id, free_ids and every
\* cache unchanged; only ids of the range get past the range test.
C11_OutOfRangeNoOp ==
    /\ [](\A t \in PThreads : pc[t] \in FreeBody => id[t] \in Range)
    /\ [][\A t \in PThreads :
             (pc[t] # pc'[t] /\ (pc[t] = "f_ret" \/ pc'[t] = "f_ret"))
                => /\ UNCHANGED <<next_id, free_ids, cache, c_lock, lock>>
                   /\ pc[t] = "f_ret" => pc'[t] = "idle"]_vars

\* an id above the range is freed while every ID of the largest range is
\* held by a caller
C11_Witness ==
    \E t \in PThreads :
       /\ pc[t] = "f_ret" /\ id[t] = base + n_ids
       /\ n_ids = MaxIds /\ next_id = base + n_ids
       /\ \A v \in Range : issued[v] > 0

\* C12: llring_init returns -1 for every size that is not a power of two
\* or is smaller than 4, and for every other size it returns 0 with
\* seq[i] = i for every slot, head = 0, tail = 0 and mask = size - 1.
C12_InitValidatesSize ==
    [][(init_rc = 1 /\ init_rc' # 1) =>
          IF IS_POW2(init_size) /\ init_size >= 4
             THEN /\ init_rc' = 0
                  /\ mask' = init_size - 1
                  /\ head' = 0 /\ tail' = 0
                  /\ DOMAIN nodes' = 0..(init_size - 1)
                  /\ \A i \in 0..(init_size - 1) : nodes'[i].seq = i
             ELSE init_rc' = -1]_vars

\* the positions of a call that has not claimed a slot
PreClaim == {"idle", "e_seq", "e_test", "d_seq", "d_test"}

\* C13: the steps of a call up to its return of false leave head, tail and
\* the seq and data of every slot as they were, a dequeue does not write
\* its output location before it has claimed a slot, and false is returned
\* only by a call that has claimed no slot.
C13_FailedOpChangesNothing ==
    [][\A t \in RThreads :
          /\ (rpc[t] # rpc'[t] /\ rpc[t] \in PreClaim /\ rpc'[t] \in PreClaim)
                => /\ UNCHANGED <<head, tail, nodes>>
                   /\ InDequeue(rpc[t]) => data'[t] = data[t]
          /\ (rpc[t] # rpc'[t] /\ ret'[t] \in {"enq_false", "deq_false"})
                => (rpc[t] \in {"e_test", "d_test"} /\ rpc'[t] = "idle")]_vars

\* an enqueue has returned false on a full ring and a dequeue on an empty one
C13_Witness ==
    \/ /\ ret[1] = "enq_false" /\ rpc[1] = "idle" /\ n_done = mask + 1
       /\ rpc[2] = "idle" /\ Len(fifo) = mask + 1 /\ mask = MaxRingSize - 1
       /\ ret[2] = "deq_false"

\* the positions of a seq_pool_free_id call
FreeAll == FreeBody \cup {"f_ret"}

\* thread t has taken the step: the step is one of the steps of its call
Moved(t) == seq_pool_new_id(t) \/ seq_pool_free_id(t) \/ seq_pool_destroy(t)

\* C14: the cursor stays within base .. base + n_ids, no step decreases
\* it, and no step of a seq_pool_free_id call changes it.
C14_MonotonicCursor ==
    /\ [](base <= next_id /\ next_id <= base + n_ids)
    /\ [][next_id' >= next_id]_vars
    /\ [][\A t \in PThreads :
             (Moved(t) /\ (pc[t] \in FreeAll \/ pc'[t] \in FreeAll))
                => next_id' = next_id]_vars

\* the cursor has reached the end of the range and a free is pushing nodes
C14_Witness ==
    /\ n_ids = MaxIds
    /\ next_id = base + n_ids
    /\ \E t \in PThreads : pc[t] = "f_push" /\ fnodes[t] # <<>>

\* C15: a seq_pool_new_id call removes at most one ID from the caches of
\* other users: it takes an ID from a peer only while it has obtained
\* none, that is while its own cache, empty when the loop started and
\* locked since, is still empty.
C15_StealSingleStep ==
    [][\A t \in PThreads :
          (pc[t] = "n_take" /\ Moved(t) /\ ~SEQPOOL_C_EMPTY(cache[li[t]]))
             => SEQPOOL_C_EMPTY(cache[uid[t]])]_vars

\* C16: in every state every cache holds at most SEQPOOL_C_SIZE IDs
\* (head - tail <= SEQPOOL_C_SIZE), whatever the number of users.
C16_CacheOccupancyBound ==
    \A u \in 0..(nb_user - 1) : CacheOcc(cache[u]) <= SEQPOOL_C_SIZE

\* the positions of a seq_pool_free_id call that found its cache full
FlushBody == {"f_flush", "f_plock", "f_push"}

\* C17: a free that finds the caller's cache full drains its
\* SEQPOOL_C_SIZE IDs in pop order into nodes, adds the freed ID as the
\* last node, leaves the cache empty and appends exactly these
\* SEQPOOL_C_SIZE + 1 nodes behind the nodes free_ids already had; it
\* changes neither next_id nor another cache, and it completes.
C17_FlushCorrectness ==
    /\ [](\A t \in PThreads :
            /\ pc[t] = "f_flush"
                  => Len(fnodes[t]) + CacheOcc(cache[uid[t]]) = SEQPOOL_C_SIZE
            /\ pc[t] \in {"f_plock", "f_push"}
                  => /\ Len(fnodes[t]) = SEQPOOL_C_SIZE + 1
                     /\ fnodes[t][SEQPOOL_C_SIZE + 1] = id[t]
                     /\ SEQPOOL_C_EMPTY(cache[uid[t]])
            /\ pc[t] # "f_fault")
    /\ [][\A t \in PThreads :
             (Moved(t) /\ pc[t] \in FlushBody)
                => /\ next_id' = next_id
                   /\ \A u \in 0..(nb_user - 1) : u # uid[t] => cache'[u] = cache[u]
                   /\ (pc[t] = "f_flush" /\ ~SEQPOOL_C_EMPTY(cache[uid[t]]))
                         => fnodes'[t] = Append(fnodes[t], SEQPOOL_C_POP(cache[uid[t]]))
                   /\ IF pc[t] = "f_push"
                         THEN /\ free_ids' = free_ids \o fnodes[t]
                              /\ SEQPOOL_C_EMPTY(cache'[uid[t]])
                         ELSE free_ids' = free_ids]_vars

\* C18: seq_pool_new_id returns false only if every ID of the range was
\* out at some instant of the call or a try-lock on a peer cache, seen
\* non-empty, failed in the call.
C18_FalseOnlyWhenExhaustedOrContended ==
    [][\A t \in DOMAIN hist :
          (pc[t] = "n_unlock" /\ pc'[t] = "idle" /\ ~found[t])
             => (hist[t].allout \/ hist[t].tryfail)]_vars

\* the positions of a call between its successful CAS and its release store
Claimed == {"e_write", "e_pub", "d_read", "d_pub"}

\* C19: at most one thread is between its successful CAS and its release
\* store for a given slot, and the seq of every slot i is pos or pos + 1 for
\* a position pos with pos & mask = i.
C19_ExclusiveSlotOwnership ==
    /\ \A t1, t2 \in RThreads :
          (t1 # t2 /\ rpc[t1] \in Claimed /\ rpc[t2] \in Claimed)
             => Masked(pos[t1], mask) # Masked(pos[t2], mask)
    /\ \A i \in DOMAIN nodes :
          \/ Masked(nodes[i].seq, mask) = i
          \/ Masked(U32(nodes[i].seq + CounterMod - 1), mask) = i

\* the positions at which the code of a call holds pool->lock
PoolLocked == {"n_free", "n_next", "n_punlock", "f_push", "x_free"}

\* C20: every step that modifies free_ids or next_id is a step of the
\* thread that holds pool->lock, and pool->lock is held by at most one
\* thread: the calls between their lock and unlock of it are never two, and
\* the lock changes hands only through its release.
C20_LockDiscipline ==
    /\ [](\A t, u \in PThreads :
            /\ pc[t] \in PoolLocked => lock = t
            /\ (pc[t] \in PoolLocked /\ pc[u] \in PoolLocked) => t = u)
    /\ [][(free_ids' # free_ids \/ next_id' # next_id)
             => /\ lock \in PThreads
                /\ pc[lock] \in PoolLocked
                /\ \A u \in PThreads \ {lock} : ~Moved(u)]_vars
    /\ [][lock' # lock
             => \E t \in PThreads :
                   /\ Moved(t)
                   /\ \/ lock = 0 /\ lock' = t
                      \/ lock = t /\ lock' = 0]_vars

\* a free pushes its nodes under pool->lock while another call waits for it
C20_Witness ==
    \E t, u \in PThreads :
       /\ pc[t] = "f_push" /\ lock = t /\ Len(fnodes[t]) = SEQPOOL_C_SIZE + 1
       /\ pc[u] = "n_plock"

\* the caches whose head, tail or ids the next step of thread t reads or
\* writes: its own cache in the fast path, the refill loops, the test
\* before the steal loop, the final pop, the add and the flush of a free;
\* the peer cache c2 in SEQPOOL_C_EMPTY(c2), without and with its lock, and
\* in SEQPOOL_C_POP(c2); both in the store of SEQPOOL_C_ADD; cache i in the
\* reset of seq_pool_destroy
Accesses(t) ==
    IF pc[t] \in {"n_fast", "n_free", "n_next", "n_punlock", "n_pop", "f_add",
                  "f_flush"}
       THEN {uid[t]}
    ELSE IF pc[t] = "n_steal" /\ li[t] < nb_user /\ li[t] # uid[t] THEN {li[t]}
    ELSE IF pc[t] = "n_steal_t" THEN {li[t]}
    ELSE IF pc[t] \in {"n_take", "x_reset"} THEN {li[t]}
    ELSE IF pc[t] = "n_add" THEN {li[t], uid[t]}
    ELSE {}

\* C21: every read and every write of a cache's head, tail or ids is made
\* by a thread that holds the c_lock of that cache, the accesses of a
\* stealing thread to a peer's cache included.
C21_CacheAccessUnderLock ==
    \A t \in PThreads : \A u \in Accesses(t) : c_lock[u] = t

\* C22: a seq_pool_new_id call that finds its cache non-empty once it has
\* locked it returns true with the oldest ID of that cache and leaves
\* next_id, free_ids, pool->lock and every other cache unchanged; a
\* seq_pool_free_id call that finds its cache not full only appends the ID
\* to that cache, behind the IDs it holds and over none of them.
C22_FastPathLocalFifo ==
    [][\A t \in PThreads :
          /\ (pc[t] = "n_fast" /\ Moved(t) /\ ~SEQPOOL_C_EMPTY(cache[uid[t]]))
                => /\ pc'[t] = "n_unlock" /\ found'[t]
                   /\ id'[t] = Head(order[uid[t]])
                   /\ order'[uid[t]] = Tail(order[uid[t]])
                   /\ UNCHANGED <<next_id, free_ids, lock>>
                   /\ \A u \in 0..(nb_user - 1) : u # uid[t] => cache'[u] = cache[u]
          /\ (pc[t] = "f_add" /\ Moved(t) /\ ~SEQPOOL_C_FULL(cache[uid[t]]))
                => /\ pc'[t] = "f_unlock"
                   /\ Len(order[uid[t]]) < SEQPOOL_C_SIZE
                   /\ order'[uid[t]] = Append(order[uid[t]], id[t])
                   /\ UNCHANGED <<next_id, free_ids, lock>>
                   /\ \A u \in 0..(nb_user - 1) : u # uid[t] => cache'[u] = cache[u]]_vars

====
